---- MODULE Spec2Model ----
(***************************************************************************)
(* Fund financial model (src/app.py): the dashboard script that values a   *)
(* user's deals, aggregates them, overlays the fee and carry schedule and  *)
(* breaks the fees down.  The script is re-run from top to bottom on every *)
(* interaction, so every action below ends with the script's computations  *)
(* (Rerun).                                                                *)
(*                                                                         *)
(* Python floats are modelled as exact rationals plus the not-a-number     *)
(* value: a number is a record [nan, n, d] with n/d in lowest terms and    *)
(* d > 0.  Rounding error is outside the model.                            *)
(***************************************************************************)
EXTENDS Integers, Sequences, FiniteSets, TLC

VARIABLES
    session,        \* user_id of the logged-in session (line 106)
    assumptionsDb,  \* rows of table assumptions (one row per user_id at most)
    dealsDb,        \* rows of table deals
    nextId,         \* next value of the serial column deals.id
    inputs,         \* current values of the Model Inputs widgets (lines 133-159)
    dealTable,      \* df after TAB 1 (lines 233-239)
    summary,        \* TAB 2 metrics (lines 379-390): no row when df is empty
    growth,         \* TAB 2 Capital Growth Breakdown rows (lines 405-420)
    yearlyStats,    \* TAB 2 yearly_stats (lines 539-540)
    scenarioRows,   \* TAB 3 data (lines 571-579)
    feeTable,       \* TAB 4 base fees (lines 608-611)
    irrArgs,        \* arguments of a direct call of irr
    irrResult       \* its result: no element before the call

vars == <<session, assumptionsDb, dealsDb, nextId, inputs, dealTable, summary,
          growth, yearlyStats, scenarioRows, feeTable, irrArgs, irrResult>>

----------------------------------------------------------------------------
(* Float arithmetic *)

RECURSIVE Gcd(_, _)
Gcd(a, b) == IF b = 0 THEN a ELSE Gcd(b, a % b)

Abs(x) == IF x < 0 THEN -x ELSE x

\* the float n/d (d # 0), in lowest terms
Rat(n, d) ==
    LET g == Gcd(Abs(n), Abs(d))
        s == IF d < 0 THEN -1 ELSE 1
    IN  [nan |-> FALSE, n |-> s * (n \div g), d |-> s * (d \div g)]

\* np.nan
NaN == [nan |-> TRUE, n |-> 0, d |-> 1]

Num(i) == Rat(i, 1)
Zero == Num(0)

Add(a, b) == IF a.nan \/ b.nan THEN NaN ELSE Rat(a.n * b.d + b.n * a.d, a.d * b.d)
Sub(a, b) == IF a.nan \/ b.nan THEN NaN ELSE Rat(a.n * b.d - b.n * a.d, a.d * b.d)
Mul(a, b) == IF a.nan \/ b.nan THEN NaN ELSE Rat(a.n * b.n, a.d * b.d)

\* Float division as pandas and numpy do it: 0/0 is NaN and raises nothing.
\* A non-zero numerator over 0 (infinity) does not occur: the only unguarded
\* division is invested / (entry_valuation + invested) with both >= 0.
Div(a, b) ==
    IF a.nan \/ b.nan THEN NaN
    ELSE IF b.n = 0 THEN NaN
    ELSE Rat(a.n * b.d, a.d * b.n)

\* Comparisons with NaN are False.
Lt(a, b) == ~a.nan /\ ~b.nan /\ a.n * b.d < b.n * a.d
Leq(a, b) == ~a.nan /\ ~b.nan /\ a.n * b.d <= b.n * a.d
Gt(a, b) == Lt(b, a)

\* Python's max(0, x): x only when x > 0
Max0(x) == IF Gt(x, Zero) THEN x ELSE Zero

\* pandas Series.sum(): NaN entries are skipped, the empty sum is 0
RECURSIVE SumSkipNa(_)
SumSkipNa(s) ==
    IF s = <<>> THEN Zero
    ELSE LET rest == SumSkipNa(Tail(s))
         IN  IF Head(s).nan THEN rest ELSE Add(Head(s), rest)

RECURSIVE SumInt(_)
SumInt(s) == IF s = <<>> THEN 0 ELSE Head(s) + SumInt(Tail(s))

\* pandas Series.mean() of an integer column: NaN for the empty column
Mean(s) == Div(Num(SumInt(s)), Num(Len(s)))

----------------------------------------------------------------------------
(* Helpers (lines 58-61) *)

\* The value moic ** (1 / exit_horizon) - 1 is irrational in general: it is
\* kept as the pair it is the root of.
Root(moic, exit_horizon) == [nan |-> FALSE, base |-> moic, years |-> exit_horizon]

\* np.nan as a rate
NaNRate == [nan |-> TRUE, base |-> Zero, years |-> Zero]

\* irr with the guard off by one: moic = 0 is let through to the power
irr_strict(moic, exit_horizon) ==
    IF Lt(moic, Zero) \/ Leq(exit_horizon, Zero) THEN NaNRate
    ELSE IF moic.nan \/ exit_horizon.nan THEN NaNRate
    ELSE Root(moic, exit_horizon)

irr(moic, exit_horizon) ==
    IF Leq(moic, Zero) \/ Leq(exit_horizon, Zero) THEN NaNRate
    ELSE IF moic.nan \/ exit_horizon.nan THEN NaNRate   \* nan ** x is nan
    ELSE Root(moic, exit_horizon)

----------------------------------------------------------------------------
(* Data *)

Users == {"u1", "u2", "u3"}

\* the fields of an assumptions row that the computations read; the other
\* columns (tickets, fund life, lockup, preferred return, ownership, dilution,
\* risk rates) are stored and loaded the same way and read by none of them
Assumptions(ip, eh, tf, mf, ac, t1, t2, t3, c1, c2, c3) ==
    [investment_period |-> ip, exit_horizon |-> eh, target_fund |-> tf,
     management_fee |-> mf, admin_cost |-> ac,
     t1_exp_moic |-> t1, t2_exp_moic |-> t2, t3_exp_moic |-> t3,
     tier1_carry |-> c1, tier2_carry |-> c2, tier3_carry |-> c3]

\* line 116: the values used when the user has no assumptions row
Defaults ==
    Assumptions(Num(10), Num(5), Zero, Num(2), Rat(3, 2),
                Rat(5, 2), Rat(3, 2), Rat(5, 4), Num(25), Num(25), Num(25))

\* values a user types into the Model Inputs widgets (lines 133-159): the
\* defaults, a schedule with ascending breakpoints and equal fee percentages,
\* and one with the default (descending) breakpoints and distinct carries
AssumptionInputs ==
    { Defaults,
      Assumptions(Num(10), Num(5), Num(1000), Num(2), Num(2),
                  Rat(5, 2), Rat(9, 2), Num(6), Num(25), Num(20), Num(30)),
      Assumptions(Num(2), Num(2), Num(1000), Num(3), Rat(3, 2),
                  Rat(5, 2), Rat(3, 2), Rat(5, 4), Num(25), Num(20), Num(30)) }

\* line 226: the options of the Scenario selectbox
ScenarioOptions == {"Base", "Downside", "Upside"}

\* pd.Timestamp.now().year (line 396)
NowYear == 2026

\* number of deal insertions modelled (deals.id is a serial column)
MaxInserts == 2

\* entry and exit year of a submitted deal: held two years, or exited in the
\* year of entry; no deal enters in the year between the two entry years
YearInputs == {<<2024, 2026>>, <<2026, 2026>>}

\* line 225: the defaults of the base and upside factor inputs, and a downside
\* factor typed in as 0.75 (the deal exits at a loss)
DealForm(y, invested, entry_val, scenario) ==
    [company |-> "Acme", entry_year |-> y[1], exit_year |-> y[2],
     invested |-> Num(invested), entry_valuation |-> Num(entry_val),
     base_factor |-> Num(3), downside_factor |-> Rat(3, 4), upside_factor |-> Num(5),
     scenario |-> scenario]

\* values a user submits in the Add Deal form (lines 219-226): 100 invested at
\* an entry valuation of 400 under each scenario, and a deal left at the form's
\* zero amounts
DealInputs ==
    {DealForm(y, 100, 400, sc) : y \in YearInputs, sc \in ScenarioOptions}
    \cup {DealForm(y, 0, 0, "Base") : y \in YearInputs}

\* a row of table deals
DealRow(id, user_id, f) ==
    [id |-> id, user_id |-> user_id, company |-> f.company,
     entry_year |-> f.entry_year, exit_year |-> f.exit_year,
     invested |-> f.invested, entry_valuation |-> f.entry_valuation,
     base_factor |-> f.base_factor, downside_factor |-> f.downside_factor,
     upside_factor |-> f.upside_factor, scenario |-> f.scenario]

\* rows in ascending id order
RECURSIVE SortById(_)
SortById(rows) ==
    IF rows = {} THEN <<>>
    ELSE LET r == CHOOSE x \in rows : \A z \in rows : x.id <= z.id
         IN  <<r>> \o SortById(rows \ {r})

\* line 233: select * from deals where user_id = %s.  The statement has no
\* ORDER BY; the rows are taken in id order, the order of insertion (sums and
\* groupings below do not depend on the order; the deletion's iloc[0] reads
\* the same df as its list of options).
LoadDeals(db, user_id) == SortById({r \in db : r.user_id = user_id})

\* lines 114-119: select * from assumptions where user_id = %s limit 1
LoadAssumptions(db, user_id) ==
    LET rows == {r \in db : r.user_id = user_id}
    IN  IF rows = {} THEN Defaults ELSE (CHOOSE r \in rows : TRUE).values

----------------------------------------------------------------------------
(* TAB 1: deal valuation (lines 234-239) *)

\* line 238: the factor the scenario label selects
factor(r) ==
    IF r.scenario = "Base" THEN r.base_factor
    ELSE IF r.scenario = "Downside" THEN r.downside_factor
    ELSE r.upside_factor

\* lines 235-239 with the factor applied to the entry valuation, the new money
\* left out of the base of the multiple
ValueDeal_on_entry_valuation(r) ==
    LET post_money == Add(r.entry_valuation, r.invested)
        ownership  == Mul(Div(r.invested, post_money), Num(100))
    IN  [id |-> r.id, company |-> r.company, scenario |-> r.scenario,
         entry_year |-> r.entry_year, exit_year |-> r.exit_year,
         invested |-> r.invested, entry_valuation |-> r.entry_valuation,
         Holding_Period |-> r.exit_year - r.entry_year,
         Post_Money |-> post_money,
         Ownership_pct |-> ownership,
         Exit_Valuation |-> Mul(r.entry_valuation, factor(r)),
         Exit_Value |-> Mul(Mul(r.entry_valuation, factor(r)), Div(ownership, Num(100)))]

\* lines 235-239 for one row of df
ValueDeal(r) ==
    LET post_money == Add(r.entry_valuation, r.invested)
        ownership  == Mul(Div(r.invested, post_money), Num(100))
    IN  [id |-> r.id, company |-> r.company, scenario |-> r.scenario,
         entry_year |-> r.entry_year, exit_year |-> r.exit_year,
         invested |-> r.invested, entry_valuation |-> r.entry_valuation,
         Holding_Period |-> r.exit_year - r.entry_year,
         Post_Money |-> post_money,
         Ownership_pct |-> ownership,
         Exit_Valuation |-> Mul(post_money, factor(r)),
         Exit_Value |-> Mul(Mul(post_money, factor(r)), Div(ownership, Num(100)))]

\* lines 233-239: df with its derived columns (an empty df gets none)
RECURSIVE DealValuation(_)
DealValuation(rows) ==
    IF rows = <<>> THEN <<>>
    ELSE <<ValueDeal(Head(rows))>> \o DealValuation(Tail(rows))

\* the column c of df
RECURSIVE Column(_, _)
Column(df, c) ==
    IF df = <<>> THEN <<>> ELSE <<Head(df)[c]>> \o Column(Tail(df), c)

----------------------------------------------------------------------------
(* TAB 2: dashboard (lines 379-390) *)

\* line 383 with the horizon of the assumptions in place of the mean holding
\* period
fund_irr_exit_horizon(moic, avg_holding_period, a) == irr(moic, a.exit_horizon)

\* line 383; a is the assumptions in scope, which the line does not read
fund_irr(moic, avg_holding_period, a) ==
    IF Gt(avg_holding_period, Zero) THEN irr(moic, avg_holding_period) ELSE NaNRate

\* lines 380-390 with the division of line 381 left unguarded
Metrics_moic_unguarded(df, a) ==
    LET invested == SumSkipNa(Column(df, "invested"))
        exit_val == SumSkipNa(Column(df, "Exit_Value"))
        moic == Div(exit_val, invested)
        avg_holding_period == Mean(Column(df, "Holding_Period"))
    IN  [invested |-> invested, exit_val |-> exit_val, moic |-> moic,
         avg_holding_period |-> avg_holding_period,
         fund_irr |-> fund_irr(moic, avg_holding_period, a),
         total_deals |-> Len(df)]

\* lines 380-390, the metrics of a df
Metrics(df, a) ==
    LET invested == SumSkipNa(Column(df, "invested"))
        exit_val == SumSkipNa(Column(df, "Exit_Value"))
        moic == IF Gt(invested, Zero) THEN Div(exit_val, invested) ELSE Zero
        avg_holding_period == Mean(Column(df, "Holding_Period"))
    IN  [invested |-> invested, exit_val |-> exit_val, moic |-> moic,
         avg_holding_period |-> avg_holding_period,
         fund_irr |-> fund_irr(moic, avg_holding_period, a),
         total_deals |-> Len(df)]

\* the dashboard without the guard of line 379
Dashboard_unguarded(df, a) == <<Metrics(df, a)>>

\* lines 379-390: nothing is computed or shown for an empty df
Dashboard(df, a) == IF df = <<>> THEN <<>> ELSE <<Metrics(df, a)>>

(* Capital Growth Breakdown (lines 393-420).  The amounts of the table are
   polynomials in current_irr, kept by their coefficients: coef[k] is the
   coefficient of current_irr^(k-1). *)
NaNAmount == [nan |-> TRUE, coef |-> <<>>]
Amount(x) == IF x.nan THEN NaNAmount ELSE [nan |-> FALSE, coef |-> <<x>>]

\* current_total * current_irr
TimesRate(p, r) ==
    IF p.nan \/ r.nan THEN NaNAmount ELSE [nan |-> FALSE, coef |-> <<Zero>> \o p.coef]

AddAmount(p, q) ==
    IF p.nan \/ q.nan THEN NaNAmount
    ELSE LET len == IF Len(p.coef) > Len(q.coef) THEN Len(p.coef) ELSE Len(q.coef)
             at(c, k) == IF k <= Len(c) THEN c[k] ELSE Zero
         IN  [nan |-> FALSE, coef |-> [k \in 1..len |-> Add(at(p.coef, k), at(q.coef, k))]]

MinEntryYear(df) ==
    CHOOSE y \in {df[i].entry_year : i \in 1..Len(df)} :
        \A i \in 1..Len(df) : y <= df[i].entry_year

\* pandas boolean-mask selection df[df['entry_year'] == yr]
RECURSIVE InYear(_, _)
InYear(df, yr) ==
    IF df = <<>> THEN <<>>
    ELSE (IF Head(df).entry_year = yr THEN <<Head(df)>> ELSE <<>>) \o InYear(Tail(df), yr)

\* lines 408-420: the loop from its i-th year on
RECURSIVE GrowthLoop(_, _, _, _, _)
GrowthLoop(df, current_irr, yr, i, current_total) ==
    IF yr > NowYear THEN <<>>
    ELSE LET yr_injection == SumSkipNa(Column(InYear(df, yr), "invested"))
             yr_appreciation == IF i > 0 THEN TimesRate(current_total, current_irr)
                                ELSE Amount(Zero)
             total == AddAmount(current_total,
                                AddAmount(Amount(yr_injection), yr_appreciation))
         IN  <<[Year |-> yr, Capital_Injection |-> yr_injection,
                Capital_Appreciation |-> yr_appreciation,
                Total_Portfolio_Value |-> total]>>
             \o GrowthLoop(df, current_irr, yr + 1, i + 1, total)

\* lines 393-420, inside the guard of line 379; metrics is the dashboard's row
\* and current_irr its fund_irr (line 402)
GrowthTable(df, metrics) ==
    IF df = <<>> THEN <<>>
    ELSE GrowthLoop(df, metrics[1].fund_irr, MinEntryYear(df), 0, Amount(Zero))

(* Investment Velocity (lines 539-540), inside the guard of line 379 *)

\* the keys of df.groupby('entry_year')
EntryYears(df) == {df[i].entry_year : i \in 1..Len(df)}

\* reset_index().sort_values('entry_year'): the keys in ascending order
RECURSIVE SortYears(_)
SortYears(ys) ==
    IF ys = {} THEN <<>>
    ELSE LET y == CHOOSE x \in ys : \A z \in ys : x <= z
         IN  <<y>> \o SortYears(ys \ {y})

\* Series.cumsum(): rows from the k-th on, after running totals cum_invested
\* and cum_deals
RECURSIVE CumSum(_, _, _, _)
CumSum(rows, k, cum_invested, cum_deals) ==
    IF k > Len(rows) THEN <<>>
    ELSE LET ci == Add(cum_invested, rows[k].invested)
             cd == cum_deals + rows[k].id
         IN  <<[entry_year |-> rows[k].entry_year, invested |-> rows[k].invested,
                id |-> rows[k].id, cum_invested |-> ci, cum_deals |-> cd]>>
             \o CumSum(rows, k + 1, ci, cd)

\* lines 539-540 reindexed over the contiguous range of years
yearly_stats_zero_filled(df) ==
    IF df = <<>> THEN <<>>
    ELSE LET first == MinEntryYear(df)
             last == CHOOSE y \in EntryYears(df) : \A z \in EntryYears(df) : z <= y
             agg == [k \in 1..(last - first + 1) |->
                       [entry_year |-> first + k - 1,
                        invested |->
                          SumSkipNa(Column(InYear(df, first + k - 1), "invested")),
                        id |-> Len(InYear(df, first + k - 1))]]
         IN  CumSum(agg, 1, Zero, 0)

\* lines 539-540
yearly_stats(df) ==
    IF df = <<>> THEN <<>>
    ELSE LET years == SortYears(EntryYears(df))
             agg == [k \in 1..Len(years) |->
                       [entry_year |-> years[k],
                        invested |-> SumSkipNa(Column(InYear(df, years[k]), "invested")),
                        id |-> Len(InYear(df, years[k]))]]
         IN  CumSum(agg, 1, Zero, 0)

----------------------------------------------------------------------------
(* TAB 3: aggregated exits (lines 565-579) *)

\* line 571
scenarios == <<"Base Case", "Upside Case", "High Growth Case">>

\* the multipliers of line 571 in descending order
multipliers_descending == <<Num(2), Rat(3, 2), Num(1)>>

multipliers == <<Num(1), Rat(3, 2), Num(2)>>

\* line 567
admin_cost_val(a) == Mul(Div(a.admin_cost, Num(100)), a.target_fund)

\* line 568
total_fees(a) == Add(Mul(admin_cost_val(a), a.investment_period), admin_cost_val(a))

\* line 575 with inclusive comparisons
carry_pct_inclusive(g_moic, a) ==
    IF Leq(g_moic, a.t2_exp_moic) THEN a.tier1_carry
    ELSE IF Leq(g_moic, a.t3_exp_moic) THEN a.tier2_carry
    ELSE a.tier3_carry

\* line 575 with the first breakpoint read from t1_exp_moic
carry_pct_from_t1(g_moic, a) ==
    IF Lt(g_moic, a.t1_exp_moic) THEN a.tier1_carry
    ELSE IF Lt(g_moic, a.t3_exp_moic) THEN a.tier2_carry
    ELSE a.tier3_carry

\* line 575
carry_pct(g_moic, a) ==
    IF Lt(g_moic, a.t2_exp_moic) THEN a.tier1_carry
    ELSE IF Lt(g_moic, a.t3_exp_moic) THEN a.tier2_carry
    ELSE a.tier3_carry

\* lines 573-579 without the max(0, .) of line 576
ScenarioRow_carry_unfloored(k, total_invested, base_gev, a) ==
    LET gev == Mul(base_gev, multipliers[k])
        pbc == Sub(gev, total_invested)
        g_moic == IF Gt(total_invested, Zero) THEN Div(gev, total_invested) ELSE Zero
        cp == carry_pct(g_moic, a)
        carry_amt == Mul(pbc, Div(cp, Num(100)))
        net == Sub(Sub(gev, carry_amt), total_fees(a))
        r_moic == IF Gt(total_invested, Zero) THEN Div(net, total_invested) ELSE Zero
    IN  [Scenario |-> scenarios[k], GEV |-> gev, PBC |-> pbc, G_MOIC |-> g_moic,
         CP |-> cp, CA |-> carry_amt, TF |-> total_fees(a), Net |-> net,
         R_MOIC |-> r_moic, IRR |-> irr(r_moic, a.exit_horizon)]

\* lines 573-579 with the IRR of line 579 taken of the gross MOIC
ScenarioRow_irr_of_gross(k, total_invested, base_gev, a) ==
    LET gev == Mul(base_gev, multipliers[k])
        pbc == Sub(gev, total_invested)
        g_moic == IF Gt(total_invested, Zero) THEN Div(gev, total_invested) ELSE Zero
        cp == carry_pct(g_moic, a)
        carry_amt == Max0(Mul(pbc, Div(cp, Num(100))))
        net == Sub(Sub(gev, carry_amt), total_fees(a))
        r_moic == IF Gt(total_invested, Zero) THEN Div(net, total_invested) ELSE Zero
    IN  [Scenario |-> scenarios[k], GEV |-> gev, PBC |-> pbc, G_MOIC |-> g_moic,
         CP |-> cp, CA |-> carry_amt, TF |-> total_fees(a), Net |-> net,
         R_MOIC |-> r_moic, IRR |-> irr(g_moic, a.exit_horizon)]

\* lines 573-579 with the fees of line 577 added to the proceeds
ScenarioRow_fees_added(k, total_invested, base_gev, a) ==
    LET gev == Mul(base_gev, multipliers[k])
        pbc == Sub(gev, total_invested)
        g_moic == IF Gt(total_invested, Zero) THEN Div(gev, total_invested) ELSE Zero
        cp == carry_pct(g_moic, a)
        carry_amt == Max0(Mul(pbc, Div(cp, Num(100))))
        net == Add(Sub(gev, carry_amt), total_fees(a))
        r_moic == IF Gt(total_invested, Zero) THEN Div(net, total_invested) ELSE Zero
    IN  [Scenario |-> scenarios[k], GEV |-> gev, PBC |-> pbc, G_MOIC |-> g_moic,
         CP |-> cp, CA |-> carry_amt, TF |-> total_fees(a), Net |-> net,
         R_MOIC |-> r_moic, IRR |-> irr(r_moic, a.exit_horizon)]

\* lines 573-579: the row of one scenario
ScenarioRow(k, total_invested, base_gev, a) ==
    LET gev == Mul(base_gev, multipliers[k])
        pbc == Sub(gev, total_invested)
        g_moic == IF Gt(total_invested, Zero) THEN Div(gev, total_invested) ELSE Zero
        cp == carry_pct(g_moic, a)
        carry_amt == Max0(Mul(pbc, Div(cp, Num(100))))
        net == Sub(Sub(gev, carry_amt), total_fees(a))
        r_moic == IF Gt(total_invested, Zero) THEN Div(net, total_invested) ELSE Zero
    IN  [Scenario |-> scenarios[k], GEV |-> gev, PBC |-> pbc, G_MOIC |-> g_moic,
         CP |-> cp, CA |-> carry_amt, TF |-> total_fees(a), Net |-> net,
         R_MOIC |-> r_moic, IRR |-> irr(r_moic, a.exit_horizon)]

\* line 572: the loop over the scenarios from the k-th on
RECURSIVE ScenarioLoop(_, _, _, _)
ScenarioLoop(k, total_invested, base_gev, a) ==
    IF k > Len(scenarios) THEN <<>>
    ELSE <<ScenarioRow(k, total_invested, base_gev, a)>>
         \o ScenarioLoop(k + 1, total_invested, base_gev, a)

\* lines 565-579
AggregatedExits(df, a) ==
    IF df = <<>> THEN <<>>
    ELSE LET total_invested == SumSkipNa(Column(df, "invested"))
             base_gev == SumSkipNa(Column(df, "Exit_Value"))
         IN  ScenarioLoop(1, total_invested, base_gev, a)

----------------------------------------------------------------------------
(* TAB 4: admin fee (lines 608-611) *)

BaseFees(a) ==
    LET admin_cost_total == Mul(Div(a.management_fee, Num(100)), a.target_fund)
        operations_fee == admin_cost_total
        management_fee_total == Mul(admin_cost_total, a.investment_period)
    IN  [admin_cost_total |-> admin_cost_total,
         operations_fee |-> operations_fee,
         management_fee_total |-> management_fee_total,
         total_iv_costs |-> Add(Add(admin_cost_total, operations_fee),
                                management_fee_total)]

----------------------------------------------------------------------------
(* The script and the interactions *)

\* df as the script has it after line 239
Df(db, user_id) == DealValuation(LoadDeals(db, user_id))

\* one run of the script below the data loading, for the session's user: the
\* widgets hold a, the store holds the deals db
Rerun(a, db) ==
    /\ dealTable' = Df(db, session')
    /\ summary' = Dashboard(dealTable', a)
    /\ growth' = GrowthTable(dealTable', summary')
    /\ yearlyStats' = yearly_stats(dealTable')
    /\ scenarioRows' = AggregatedExits(dealTable', a)
    /\ feeTable' = BaseFees(a)

\* The state after user u1 has logged in (lines 102-106) and the script has run
\* once against an empty store: the widgets show the defaults of line 116.
Init ==
    /\ session = "u1"
    /\ assumptionsDb = {}
    /\ dealsDb = {}
    /\ nextId = 1
    /\ inputs = LoadAssumptions(assumptionsDb, session)
    /\ dealTable = Df(dealsDb, session)
    /\ summary = Dashboard(dealTable, inputs)
    /\ growth = GrowthTable(dealTable, summary)
    /\ yearlyStats = yearly_stats(dealTable)
    /\ scenarioRows = AggregatedExits(dealTable, inputs)
    /\ feeTable = BaseFees(inputs)
    /\ irrArgs = <<Zero, Zero>>
    /\ irrResult = <<>>

\* lines 133-159: the user changes the Model Inputs widgets
EditAssumptions(a) ==
    /\ a # inputs
    /\ inputs' = a
    /\ UNCHANGED <<session, assumptionsDb, dealsDb, nextId, irrArgs, irrResult>>
    /\ Rerun(a, dealsDb)

\* lines 163-203 with a plain INSERT and no conflict clause
Upsert_insert_only(db, user_id, values) ==
    db \cup {[user_id |-> user_id, values |-> values]}

\* lines 163-203: INSERT ... ON CONFLICT (user_id) DO UPDATE SET every column
Upsert(db, user_id, values) ==
    {r \in db : r.user_id # user_id} \cup {[user_id |-> user_id, values |-> values]}

\* lines 161-206: the Save Assumptions button stores the widgets' values
SaveAssumptions ==
    /\ assumptionsDb' = Upsert(assumptionsDb, session, inputs)
    /\ UNCHANGED <<session, dealsDb, nextId, inputs, irrArgs, irrResult>>
    /\ Rerun(inputs, dealsDb)

\* lines 227-231: the Add Deal form is submitted
AddDeal(f) ==
    /\ nextId <= MaxInserts
    /\ dealsDb' = dealsDb \cup {DealRow(nextId, session, f)}
    /\ nextId' = nextId + 1
    /\ UNCHANGED <<session, assumptionsDb, inputs, irrArgs, irrResult>>
    /\ Rerun(inputs, dealsDb')

\* lines 73-76
delete_deal_from_db(db, deal_id) == {r \in db : r.id # deal_id}

\* line 320: df[df["company"] == selected_deal]["id"].iloc[0]
FirstIdOfCompany(df, selected_deal) ==
    LET i == CHOOSE k \in 1..Len(df) :
                 /\ df[k].company = selected_deal
                 /\ \A m \in 1..(k - 1) : df[m].company # selected_deal
    IN  df[i].id

\* lines 310-336: the j-th option of the selectbox (the company of the j-th
\* deal of df) is selected and the deletion confirmed
DeleteDeal(j) ==
    /\ j \in 1..Len(dealTable)
    /\ LET selected_deal == dealTable[j].company
           deal_id == FirstIdOfCompany(dealTable, selected_deal)
       IN  dealsDb' = delete_deal_from_db(dealsDb, deal_id)
    /\ UNCHANGED <<session, assumptionsDb, nextId, inputs, irrArgs, irrResult>>
    /\ Rerun(inputs, dealsDb')

Next ==
    \/ \E a \in AssumptionInputs : EditAssumptions(a)
    \/ SaveAssumptions
    \/ \E f \in DealInputs : AddDeal(f)
    \/ \E j \in 1..MaxInserts : DeleteDeal(j)

Spec == Init /\ [][Next]_vars

----------------------------------------------------------------------------
(* Several users and one store.  A login starts a session of its own (lines
   90-94), whose first run loads the user's assumptions into the widgets
   (lines 106-119); the sessions of the other users are left as they are and
   act no more. *)

Login(u) ==
    /\ session' = u
    /\ inputs' = LoadAssumptions(assumptionsDb, u)
    /\ UNCHANGED <<assumptionsDb, dealsDb, nextId, irrArgs, irrResult>>
    /\ Rerun(inputs', dealsDb)

NextUsers ==
    \/ \E u \in Users : Login(u)
    \/ \E a \in AssumptionInputs : EditAssumptions(a)
    \/ SaveAssumptions

SpecUsers == Init /\ [][NextUsers]_vars

----------------------------------------------------------------------------
(* The helpers on their own: irr called on given arguments, and the deal
   valuation run on a stored row.  The scenario column of the store is text:
   a row can carry a label that is none of the selectbox options. *)

StoredScenarios == ScenarioOptions \cup {"Other", "base"}

StoredDeals ==
    {DealRow(1, "u1", DealForm(y, m[1], m[2], sc)) :
        y \in YearInputs, m \in {<<0, 0>>, <<100, 400>>}, sc \in StoredScenarios}

MoicArgs == {Num(-1), Zero, Rat(1, 2), Num(1), Num(3)}
HorizonArgs == {Num(-1), Zero, Num(1), Rat(5, 2), Num(5)}

InitFn ==
    /\ session = "u1"
    /\ assumptionsDb = {}
    /\ dealsDb \in {{r} : r \in StoredDeals}
    /\ nextId = 2
    /\ inputs = Defaults
    /\ dealTable = <<>>
    /\ summary = <<>>
    /\ growth = <<>>
    /\ yearlyStats = <<>>
    /\ scenarioRows = <<>>
    /\ feeTable = BaseFees(Defaults)
    /\ irrArgs \in MoicArgs \X HorizonArgs
    /\ irrResult = <<>>

\* lines 58-61
CallIrr ==
    /\ irrResult = <<>>
    /\ irrResult' = <<irr(irrArgs[1], irrArgs[2])>>
    /\ UNCHANGED <<session, assumptionsDb, dealsDb, nextId, inputs, dealTable,
                   summary, growth, yearlyStats, scenarioRows, feeTable, irrArgs>>

\* lines 233-239
ValueDeals ==
    /\ dealTable = <<>>
    /\ dealTable' = Df(dealsDb, session)
    /\ UNCHANGED <<session, assumptionsDb, dealsDb, nextId, inputs,
                   summary, growth, yearlyStats, scenarioRows, feeTable, irrArgs,
                   irrResult>>

NextFn == CallIrr \/ ValueDeals

SpecFn == InitFn /\ [][NextFn]_vars

----------------------------------------------------------------------------
(* Equality of rates.  m1 ** (1/y1) = m2 ** (1/y2) exactly when
   m1 ^ e = m2 ^ f for y2 / y1 = e / f in lowest terms, and for fractions in
   lowest terms that is: numerators and denominators are the f-th and e-th
   powers of a common integer. *)

RECURSIVE PowCapped(_, _)
PowCapped(b, e) ==
    IF e = 0 THEN 1
    ELSE LET p == PowCapped(b, e - 1)
         IN  IF p * b > 1000000 THEN 1000001 ELSE p * b

SamePower(x, e, z, f) == \E k \in 1..x : PowCapped(k, f) = x /\ PowCapped(k, e) = z

RateEq(r1, r2) ==
    IF r1.nan \/ r2.nan THEN r1.nan /\ r2.nan
    ELSE LET e0 == r2.years.n * r1.years.d
             f0 == r1.years.n * r2.years.d
             g == Gcd(e0, f0)
             e == e0 \div g
             f == f0 \div g
         IN  /\ SamePower(r1.base.n, e, r2.base.n, f)
             /\ SamePower(r1.base.d, e, r2.base.d, f)

\* the rate 0: 1 ** (1/1) - 1
ZeroRate == Root(Num(1), Num(1))

OwnDeals == {r \in dealsDb : r.user_id = session}

----------------------------------------------------------------------------
(* Claims *)

\* C1 as stated: whenever a scenario's gross MOIC equals t2_exp_moic, whatever
\* the order of the breakpoints, the carry percentage is tier2_carry.
C1_Tier2AtT2Breakpoint ==
    \A k \in DOMAIN scenarioRows :
        scenarioRows[k].G_MOIC = inputs.t2_exp_moic
            => scenarioRows[k].CP = inputs.tier2_carry

\* C1 as amended: at gross MOIC = t2_exp_moic the carry percentage is
\* tier2_carry when t2_exp_moic < t3_exp_moic and tier3_carry otherwise.
C1_Tier2AtT2WhenBelowT3 ==
    \A k \in DOMAIN scenarioRows :
        scenarioRows[k].G_MOIC = inputs.t2_exp_moic
            => scenarioRows[k].CP =
                 IF Lt(inputs.t2_exp_moic, inputs.t3_exp_moic)
                 THEN inputs.tier2_carry ELSE inputs.tier3_carry

C1_Witness ==
    \E k \in DOMAIN scenarioRows :
        /\ scenarioRows[k].G_MOIC = inputs.t2_exp_moic
        /\ Lt(inputs.t2_exp_moic, inputs.t3_exp_moic)
        /\ scenarioRows[k].CP = inputs.tier2_carry
        /\ inputs.tier2_carry # inputs.tier1_carry
        /\ inputs.tier2_carry # inputs.tier3_carry

\* C2: a deal whose post-money valuation is 0 has ownership 0 and exit value 0.
C2_ZeroPostMoneyYieldsZero ==
    \A i \in DOMAIN dealTable :
        dealTable[i].Post_Money = Zero
            => dealTable[i].Ownership_pct = Zero /\ dealTable[i].Exit_Value = Zero

\* C3: a deal whose scenario label is none of Base, Downside, Upside is never
\* valued (its valuation fails): every valued row carries a known label.
C3_UnknownScenarioNotValued ==
    \A i \in DOMAIN dealTable : dealTable[i].scenario \in ScenarioOptions

\* C4: the fee breakdown is admin_cost% x target_fund, the same amount as
\* operations fee, that amount x investment_period as management fee, and
\* their sum as total.
C4_FeeBreakdownFromAdminCost ==
    LET admin == Mul(Div(inputs.admin_cost, Num(100)), inputs.target_fund)
    IN  /\ feeTable.admin_cost_total = admin
        /\ feeTable.operations_fee = admin
        /\ feeTable.management_fee_total = Mul(admin, inputs.investment_period)
        /\ feeTable.total_iv_costs =
             Add(Add(admin, admin), Mul(admin, inputs.investment_period))

\* C5: the total fees of every scenario are A x (1 + investment_period) for the
\* admin cost A that the fee breakdown shows.
C5_TotalFeesMatchBreakdown ==
    \A k \in DOMAIN scenarioRows :
        scenarioRows[k].TF =
            Mul(feeTable.admin_cost_total, Add(Num(1), inputs.investment_period))

----------------------------------------------------------------------------

\* the mean of exit_year - entry_year over the valued deals
MeanHoldingPeriod ==
    Div(Num(SumInt([i \in 1..Len(dealTable) |->
                      dealTable[i].exit_year - dealTable[i].entry_year])),
        Num(Len(dealTable)))

\* C6 as stated: the fund IRR is annualized_return(gross_moic, exit_horizon).
C6_FundIrrOverExitHorizon ==
    summary # <<>>
        => RateEq(summary[1].fund_irr, irr(summary[1].moic, inputs.exit_horizon))

\* C6 as amended: the fund IRR is annualized_return(gross_moic, mean holding
\* period of the deals) when that mean is positive and not available
\* otherwise; exit_horizon has no part in it.
C6_FundIrrOverMeanHoldingPeriod ==
    summary # <<>>
        => summary[1].fund_irr =
             IF Gt(MeanHoldingPeriod, Zero)
             THEN irr(summary[1].moic, MeanHoldingPeriod)
             ELSE NaNRate

C6_Witness ==
    /\ summary # <<>>
    /\ ~summary[1].fund_irr.nan
    /\ summary[1].fund_irr.years = MeanHoldingPeriod
    /\ MeanHoldingPeriod # inputs.exit_horizon
    /\ ~RateEq(summary[1].fund_irr, irr(summary[1].moic, inputs.exit_horizon))

\* C7: irr returns the not-available value, which no number equals (0
\* included), when moic <= 0 or the horizon <= 0, and the number
\* moic ** (1 / horizon) - 1 when both are positive.
C7_IrrSentinel ==
    irrResult # <<>>
        => LET moic == irrArgs[1]
               years == irrArgs[2]
               rate == irrResult[1]
           IN  /\ (Leq(moic, Zero) \/ Leq(years, Zero))
                    => rate.nan /\ ~RateEq(rate, ZeroRate)
               /\ (Gt(moic, Zero) /\ Gt(years, Zero))
                    => ~rate.nan /\ RateEq(rate, Root(moic, years))

C7_Witness ==
    /\ irrResult # <<>>
    /\ irrArgs[1] = Zero
    /\ Gt(irrArgs[2], Zero)
    /\ irrResult[1].nan

\* C8: when some deal has post-money 0 or the portfolio has nothing invested,
\* no not-a-number reaches the sums: the total exit value and every running
\* total of the capital growth breakdown are numbers.
C8_NoNaNInDownstreamSums ==
    (/\ summary # <<>>
     /\ \/ \E i \in DOMAIN dealTable : dealTable[i].Post_Money = Zero
        \/ summary[1].invested = Zero)
        => /\ ~summary[1].exit_val.nan
           /\ \A j \in DOMAIN growth : ~growth[j].Total_Portfolio_Value.nan

\* C9 as stated: with no deals the aggregator reports total_invested 0, total
\* exit value 0, gross MOIC 0 and a not-available fund IRR.
C9_EmptyPortfolioSummary ==
    OwnDeals = {}
        => /\ Len(summary) = 1
           /\ summary[1].invested = Zero
           /\ summary[1].exit_val = Zero
           /\ summary[1].moic = Zero
           /\ summary[1].fund_irr.nan

\* C9 as amended: with no deals the dashboard reports no metrics at all; the
\* metrics row exists exactly when the user has a deal.
C9_EmptyPortfolioShowsNoMetrics ==
    /\ OwnDeals = {} => summary = <<>>
    /\ OwnDeals # {} => Len(summary) = 1

\* the portfolio is empty again after its deal was deleted
C9_Witness ==
    /\ nextId > 1
    /\ OwnDeals = {}
    /\ dealTable = <<>>
    /\ summary = <<>>

\* C10: the carry percentage of every scenario is tier1_carry below
\* t2_exp_moic, else tier2_carry below t3_exp_moic, else tier3_carry, with
\* strict comparisons and whatever t1_exp_moic is.
C10_CarryTierSelection ==
    \A k \in DOMAIN scenarioRows :
        LET g_moic == scenarioRows[k].G_MOIC
        IN  scenarioRows[k].CP =
              IF Lt(g_moic, inputs.t2_exp_moic) THEN inputs.tier1_carry
              ELSE IF Lt(g_moic, inputs.t3_exp_moic) THEN inputs.tier2_carry
              ELSE inputs.tier3_carry

\* one run in which the three tiers are selected, the upper two at their
\* breakpoints
C10_Witness ==
    /\ Len(scenarioRows) = 3
    /\ Lt(scenarioRows[1].G_MOIC, inputs.t2_exp_moic)
    /\ scenarioRows[1].CP = inputs.tier1_carry
    /\ scenarioRows[2].G_MOIC = inputs.t2_exp_moic
    /\ scenarioRows[2].CP = inputs.tier2_carry
    /\ scenarioRows[3].G_MOIC = inputs.t3_exp_moic
    /\ scenarioRows[3].CP = inputs.tier3_carry
    /\ inputs.tier1_carry # inputs.tier2_carry
    /\ inputs.tier2_carry # inputs.tier3_carry
    /\ inputs.t1_exp_moic # inputs.t2_exp_moic

----------------------------------------------------------------------------

\* the stored deal a valued row was computed from
StoredDeal(row) == CHOOSE r \in dealsDb : r.id = row.id

\* C11: for every valued deal with post_money > 0 and a label among Base,
\* Downside, Upside: post_money = entry_valuation + invested, ownership_pct =
\* invested / post_money x 100, exit_valuation = post_money x the factor of the
\* label, exit_value = exit_valuation x ownership_pct / 100, which is
\* invested x factor.
C11_DealValuation ==
    \A i \in DOMAIN dealTable :
        LET row == dealTable[i]
            deal == StoredDeal(row)
            post_money == Add(deal.entry_valuation, deal.invested)
            f == CASE deal.scenario = "Base" -> deal.base_factor
                   [] deal.scenario = "Downside" -> deal.downside_factor
                   [] deal.scenario = "Upside" -> deal.upside_factor
        IN  (Gt(post_money, Zero) /\ deal.scenario \in ScenarioOptions)
                => /\ row.Post_Money = post_money
                   /\ row.Ownership_pct = Mul(Div(deal.invested, post_money), Num(100))
                   /\ row.Exit_Valuation = Mul(post_money, f)
                   /\ row.Exit_Value =
                        Div(Mul(row.Exit_Valuation, row.Ownership_pct), Num(100))
                   /\ row.Exit_Value = Mul(deal.invested, f)

\* the worked example: 100 invested at an entry valuation of 400 under Base
\* with factor 3 gives post-money 500, 20%, exit valuation 1500, exit value 300
C11_Witness ==
    \E i \in DOMAIN dealTable :
        /\ dealTable[i].invested = Num(100)
        /\ dealTable[i].entry_valuation = Num(400)
        /\ dealTable[i].scenario = "Base"
        /\ StoredDeal(dealTable[i]).base_factor = Num(3)
        /\ dealTable[i].Post_Money = Num(500)
        /\ dealTable[i].Ownership_pct = Num(20)
        /\ dealTable[i].Exit_Valuation = Num(1500)
        /\ dealTable[i].Exit_Value = Num(300)

----------------------------------------------------------------------------

\* the sum of column c over the first k valued deals; a deal whose value in
\* the column is not a number (the exit value of a deal with post-money 0)
\* adds nothing
RECURSIVE TotalOf(_, _)
TotalOf(c, k) ==
    IF k = 0 THEN Zero
    ELSE IF dealTable[k][c].nan THEN TotalOf(c, k - 1)
    ELSE Add(TotalOf(c, k - 1), dealTable[k][c])

\* C12: the metrics computed for a portfolio (one with a deal: line 379) are
\* total_invested = the sum of invested over the user's deals, total_exit_value = the sum of their exit
\* values, deal_count = their number, and gross_moic = total_exit_value /
\* total_invested when total_invested > 0 and 0 otherwise.
C12_PortfolioAggregation ==
    summary # <<>>
        => LET total_invested == TotalOf("invested", Len(dealTable))
               total_exit_value == TotalOf("Exit_Value", Len(dealTable))
           IN  /\ Len(dealTable) = Cardinality(OwnDeals)
               /\ summary[1].invested = total_invested
               /\ summary[1].exit_val = total_exit_value
               /\ summary[1].total_deals = Cardinality(OwnDeals)
               /\ Gt(total_invested, Zero)
                    => summary[1].moic = Div(total_exit_value, total_invested)
               /\ ~Gt(total_invested, Zero) => summary[1].moic = Zero

\* two deals, one of them left at the zero amounts: 100 invested, exit value
\* 300, MOIC 3
C12_Witness ==
    /\ Len(summary) = 1
    /\ Cardinality(OwnDeals) = 2
    /\ \E i \in DOMAIN dealTable : dealTable[i].invested = Zero
    /\ summary[1].invested = Num(100)
    /\ summary[1].exit_val = Num(300)
    /\ summary[1].moic = Num(3)
    /\ summary[1].total_deals = 2

----------------------------------------------------------------------------

\* C13: in every scenario carry_amount = max(0, profit_before_carry x
\* carry_pct / 100) with profit_before_carry = gev - total_invested; it is
\* never negative and is 0 whenever profit_before_carry <= 0.
C13_CarryNeverNegative ==
    \A k \in DOMAIN scenarioRows :
        LET row == scenarioRows[k]
            share == Mul(row.PBC, Div(row.CP, Num(100)))
        IN  /\ row.PBC = Sub(row.GEV, summary[1].invested)
            /\ row.CA = IF Lt(Zero, share) THEN share ELSE Zero
            /\ Leq(Zero, row.CA)
            /\ Leq(row.PBC, Zero) => row.CA = Zero

\* a portfolio that exits at a loss: the Base Case has a negative profit
\* before carry, a positive carry percentage and no carry
C13_Witness ==
    /\ Len(scenarioRows) = 3
    /\ Lt(scenarioRows[1].PBC, Zero)
    /\ Lt(Zero, scenarioRows[1].CP)
    /\ scenarioRows[1].CA = Zero

----------------------------------------------------------------------------

\* C14: in every scenario net_to_investors = gev - carry_amount - total_fees,
\* real_moic = net_to_investors / total_invested when total_invested > 0 and 0
\* otherwise, and scenario_irr = annualized_return(real_moic, exit_horizon):
\* not available whenever net_to_investors <= 0 or total_invested = 0, and the
\* rate real_moic ** (1 / exit_horizon) - 1 otherwise.
C14_NetRealMoicAndIrr ==
    \A k \in DOMAIN scenarioRows :
        LET row == scenarioRows[k]
            total_invested == summary[1].invested
        IN  /\ row.Net = Sub(Sub(row.GEV, row.CA), row.TF)
            /\ Gt(total_invested, Zero) => row.R_MOIC = Div(row.Net, total_invested)
            /\ ~Gt(total_invested, Zero) => row.R_MOIC = Zero
            /\ (Leq(row.Net, Zero) \/ total_invested = Zero) => row.IRR.nan
            /\ (Gt(row.Net, Zero) /\ Gt(total_invested, Zero))
                 => /\ ~row.IRR.nan
                    /\ RateEq(row.IRR, Root(row.R_MOIC, inputs.exit_horizon))

\* fees above the proceeds of the Base Case: with capital invested, its net
\* and real MOIC are negative and it has no IRR
C14_Witness ==
    /\ Len(scenarioRows) = 3
    /\ Gt(summary[1].invested, Zero)
    /\ Gt(scenarioRows[1].TF, Zero)
    /\ Gt(scenarioRows[1].GEV, Zero)
    /\ Lt(scenarioRows[1].Net, Zero)
    /\ Lt(scenarioRows[1].R_MOIC, Zero)
    /\ scenarioRows[1].IRR.nan

----------------------------------------------------------------------------

\* the assumptions records of user u in store db
RecordsOf(db, u) == {r \in db : r.user_id = u}

\* C15: in every step the store is left with at most one assumptions record
\* per user; a save leaves the session's user with exactly one record, holding
\* the saved values (created if there was none, overwritten otherwise) and
\* leaves the records of every other user as they were; and on the store of
\* every state, saving the same values twice gives the store that saving them
\* once gives.
C15_SaveIsIdempotentUpsert ==
    [][ /\ \A u \in Users : Cardinality(RecordsOf(assumptionsDb', u)) <= 1
        /\ SaveAssumptions
             => /\ RecordsOf(assumptionsDb', session) =
                     {[user_id |-> session, values |-> inputs]}
                /\ \A u \in Users \ {session} :
                      RecordsOf(assumptionsDb', u) = RecordsOf(assumptionsDb, u)
        /\ \A u \in Users, v \in AssumptionInputs :
             LET once == Upsert(assumptionsDb, u, v)
             IN  /\ Upsert(once, u, v) = once
                 /\ RecordsOf(once, u) = {[user_id |-> u, values |-> v]}
      ]_vars

\* two users have saved different values, the session's user after having
\* saved other values before (the widgets hold what the record holds, and it
\* is not what a first save of the defaults would hold); the third user has
\* no record
C15_Witness ==
    /\ Cardinality(assumptionsDb) = 2
    /\ \E r1, r2 \in assumptionsDb :
         /\ r1.user_id = session
         /\ r1.values = inputs
         /\ r1.values # Defaults
         /\ r2.user_id # session
         /\ r2.values # r1.values
    /\ \E u \in Users : RecordsOf(assumptionsDb, u) = {}

----------------------------------------------------------------------------

\* C16: confirming the deletion of the selected deal (the j-th of the list)
\* removes exactly that deal from the store and leaves every other deal, those
\* of the same company included, as it was.
C16_DeleteRemovesSelectedDeal ==
    [][ \A j \in 1..Len(dealTable) :
          DeleteDeal(j) => dealsDb' = {r \in dealsDb : r.id # dealTable[j].id}
      ]_vars

----------------------------------------------------------------------------

\* C17: the scenario table has one row per scenario in the order Base (1.0),
\* Upside (1.5), High Growth (2.0), each with gev = total_exit_value x its
\* multiplier; the multipliers being increasing, gev is strictly increasing
\* across the rows when total_exit_value > 0.
C17_ScenarioOrderAndGev ==
    scenarioRows # <<>>
        => LET total_exit_value == summary[1].exit_val
           IN  /\ Len(scenarioRows) = 3
               /\ scenarioRows[1].Scenario = "Base Case"
               /\ scenarioRows[1].GEV = total_exit_value
               /\ scenarioRows[2].Scenario = "Upside Case"
               /\ scenarioRows[2].GEV = Mul(total_exit_value, Rat(3, 2))
               /\ scenarioRows[3].Scenario = "High Growth Case"
               /\ scenarioRows[3].GEV = Mul(total_exit_value, Num(2))
               /\ Gt(total_exit_value, Zero)
                    => /\ Lt(scenarioRows[1].GEV, scenarioRows[2].GEV)
                       /\ Lt(scenarioRows[2].GEV, scenarioRows[3].GEV)

\* a total exit value of 300 gives 300, 450 and 600
C17_Witness ==
    /\ Len(scenarioRows) = 3
    /\ summary[1].exit_val = Num(300)
    /\ scenarioRows[1].GEV = Num(300)
    /\ scenarioRows[2].GEV = Num(450)
    /\ scenarioRows[3].GEV = Num(600)

----------------------------------------------------------------------------

\* the valued deals that entered in year y
DealsOfYear(y) == {i \in DOMAIN dealTable : dealTable[i].entry_year = y}

\* the amount invested in the deals of the index set S
RECURSIVE InvestedOf(_)
InvestedOf(S) ==
    IF S = {} THEN Zero
    ELSE LET i == CHOOSE x \in S : TRUE
         IN  Add(dealTable[i].invested, InvestedOf(S \ {i}))

\* C18: the time-series view has exactly one row per entry year present among
\* the deals and none for any other year, in ascending year order, each with
\* the year's invested sum and deal count; the cumulative values of a row are
\* the sums over the rows up to it, and those of the last row are
\* total_invested and deal_count.
C18_YearlyStats ==
    LET n == Len(yearlyStats)
        years == {dealTable[i].entry_year : i \in DOMAIN dealTable}
    IN  /\ n = Cardinality(years)
        /\ {yearlyStats[k].entry_year : k \in 1..n} = years
        /\ \A k \in 1..(n - 1) :
             yearlyStats[k].entry_year < yearlyStats[k + 1].entry_year
        /\ \A k \in 1..n :
             LET row == yearlyStats[k]
                 upto == {i \in DOMAIN dealTable :
                            dealTable[i].entry_year <= row.entry_year}
             IN  /\ row.invested = InvestedOf(DealsOfYear(row.entry_year))
                 /\ row.id = Cardinality(DealsOfYear(row.entry_year))
                 /\ row.id > 0
                 /\ row.cum_invested = InvestedOf(upto)
                 /\ row.cum_deals = Cardinality(upto)
                 /\ row.cum_invested =
                      IF k = 1 THEN row.invested
                      ELSE Add(yearlyStats[k - 1].cum_invested, row.invested)
                 /\ row.cum_deals =
                      IF k = 1 THEN row.id ELSE yearlyStats[k - 1].cum_deals + row.id
        /\ n > 0 => /\ yearlyStats[n].cum_invested = summary[1].invested
                    /\ yearlyStats[n].cum_deals = summary[1].total_deals

\* one deal entered in 2024 and one in 2026: two rows, none for 2025
C18_Witness ==
    /\ Len(yearlyStats) = 2
    /\ yearlyStats[1].entry_year = 2024
    /\ yearlyStats[1].invested = Num(100)
    /\ yearlyStats[1].cum_deals = 1
    /\ yearlyStats[2].entry_year = 2026
    /\ yearlyStats[2].invested = Num(100)
    /\ yearlyStats[2].id = 1
    /\ yearlyStats[2].cum_invested = Num(200)
    /\ yearlyStats[2].cum_deals = 2

----------------------------------------------------------------------------

\* C19: in every scenario of a portfolio with total_invested > 0 (admin cost,
\* target fund and investment period being non-negative, as the widgets make
\* them), net_to_investors <= gev and real_moic <= gross_moic, whichever
\* carry tier is selected.
C19_NetAtMostGross ==
    \A k \in DOMAIN scenarioRows :
        (/\ Gt(summary[1].invested, Zero)
         /\ Leq(Zero, inputs.admin_cost)
         /\ Leq(Zero, inputs.target_fund)
         /\ Leq(Zero, inputs.investment_period))
            => /\ Leq(scenarioRows[k].Net, scenarioRows[k].GEV)
               /\ Leq(scenarioRows[k].R_MOIC, scenarioRows[k].G_MOIC)

\* the three scenarios fall into the three tiers, each with a carry and fees
\* taken off the proceeds
C19_Witness ==
    /\ Len(scenarioRows) = 3
    /\ Gt(summary[1].invested, Zero)
    /\ scenarioRows[1].CP = inputs.tier1_carry
    /\ scenarioRows[2].CP = inputs.tier2_carry
    /\ scenarioRows[3].CP = inputs.tier3_carry
    /\ inputs.tier1_carry # inputs.tier2_carry
    /\ inputs.tier2_carry # inputs.tier3_carry
    /\ inputs.tier1_carry # inputs.tier3_carry
    /\ \A k \in 1..3 :
         /\ Gt(scenarioRows[k].CA, Zero)
         /\ Gt(scenarioRows[k].TF, Zero)
         /\ Lt(scenarioRows[k].Net, scenarioRows[k].GEV)
         /\ Lt(scenarioRows[k].R_MOIC, scenarioRows[k].G_MOIC)

====
